---- MODULE Spec2Model ----
(***************************************************************************)
(* Space Fight (src/game.py): the match loop SpaceFight.run, the per-frame *)
(* SpaceFight.update, the entities Bullet, Meteor, Particle and the        *)
(* ScreenShake effect.                                                     *)
(*                                                                         *)
(* Numbers.  The program computes with Python floats; the model uses       *)
(* fixed point:                                                            *)
(*   dt                   milliseconds (clock.tick returns whole ms)       *)
(*   ship pos             1/1000 pixel        ship vel    1/1000 pixel/s   *)
(*   rect x, y            whole pixels (pygame.Rect holds ints)            *)
(*   bullet/particle life milliseconds        particle size 1/1000 pixel   *)
(*   meteor vx, vy        1/1000 pixel/s      meteor angle  1/1000 degree  *)
(*   shake timer          microseconds        hit_flash     1/10000        *)
(*   health display       1/1000 health point                              *)
(* int(f) truncates toward zero and is modelled by Trunc.                  *)
(*                                                                         *)
(* Not modelled: surfaces, images, sounds, fonts, blits (rendering only),  *)
(* Particle.pos/vel/color and bg_offset (they feed nothing but the blits). *)
(***************************************************************************)
EXTENDS Integers, Sequences, FiniteSets, TLC

\* ------------------------------------------------------------ configuration
WIDTH == 900
HEIGHT == 500
FPS == 60
SHIP_W == 80
SHIP_H == 60
BULLET_W == 10
BULLET_H == 5
MAX_BULLETS == 4
BULLET_SPEED == 850
SHIP_ACCEL == 2400
SHIP_DRAG == 12
METEOR_VEL == 70
METEOR_COUNT == 3
METEOR_SIZE == 50
MAX_PARTICLES == 400
MAX_HEALTH == 10
HIT_BURST == 22
TRAIL_CAP == 7
BULLET_LIFE == 2000
\* (1, 1).normalize() * SHIP_ACCEL, per axis: 2400 / sqrt(2), rounded down
DIAG_ACCEL == 1697

\* BORDER = pygame.Rect(WIDTH // 2 - 5, 0, 10, HEIGHT)
BORDER == [x |-> (WIDTH \div 2) - 5, y |-> 0, w |-> 10, h |-> HEIGHT]

\* ------------------------------------------------------------ arithmetic
Min(a, b) == IF a < b THEN a ELSE b
Max(a, b) == IF a > b THEN a ELSE b
Abs(a) == IF a < 0 THEN -a ELSE a

\* int(a / b) for b > 0: Python's int() truncates toward zero
Trunc(a, b) == IF a >= 0 THEN a \div b ELSE -((-a) \div b)

\* random.uniform(lo, hi) with the generator's draw given in percent
Uniform(lo, hi, roll) == lo + ((hi - lo) * roll) \div 100

\* lerp(a, b, t) with t in 1/1000
lerp(a, b, t) == a + Trunc((b - a) * Max(0, Min(1000, t)), 1000)

\* ------------------------------------------------------------ pygame.Rect
Rect(x, y, w, h) == [x |-> x, y |-> y, w |-> w, h |-> h]
Left(r) == r.x
Right(r) == r.x + r.w
Top(r) == r.y
Bottom(r) == r.y + r.h
Center(r) == <<r.x + (r.w \div 2), r.y + (r.h \div 2)>>

\* Rect.colliderect: the rectangles overlap; touching edges do not collide
colliderect(a, b) ==
    /\ Left(a) < Right(b)
    /\ Right(a) > Left(b)
    /\ Top(a) < Bottom(b)
    /\ Bottom(a) > Top(b)

Vec(x, y) == [x |-> x, y |-> y]

\* SpaceFight._ship_rect
ship_rect(pos) == Rect(Trunc(pos.x, 1000), Trunc(pos.y, 1000), SHIP_W, SHIP_H)

\* ------------------------------------------------------------ sequences
\* list.remove(v): the first element equal to v goes; ValueError (caught by
\* every caller) leaves the list as it is
Remove(s, v) ==
    IF \E j \in 1..Len(s) : s[j] = v
    THEN LET i == CHOOSE j \in 1..Len(s) : s[j] = v /\ \A k \in 1..(j - 1) : s[k] # v
         IN  [j \in 1..(Len(s) - 1) |-> IF j < i THEN s[j] ELSE s[j + 1]]
    ELSE s

Contains(s, v) == \E j \in 1..Len(s) : s[j] = v

\* ------------------------------------------------------------ Bullet
NewBullet(rect, vel_x, owner) ==
    [rect |-> rect, vel_x |-> vel_x, owner |-> owner, trail |-> <<>>, life |-> BULLET_LIFE]

\* Bullet.update(dt)
BulletUpdate(b, dtms) ==
    LET r == [b.rect EXCEPT !.x = @ + Trunc(b.vel_x * dtms, 1000)]
        t == Append(b.trail, Center(r))
    IN  [b EXCEPT !.rect = r,
                  !.life = @ - dtms,
                  !.trail = IF Len(t) > TRAIL_CAP THEN Tail(t) ELSE t]

\* a bullet that is never taken for dead
BulletIsDead_Never(b) == FALSE

\* a bullet that only ever expires, and is kept when it leaves the arena
BulletIsDead_LifeOnly(b) == b.life <= 0

\* Bullet.is_dead()
BulletIsDead(b) == b.life <= 0 \/ Right(b.rect) < 0 \/ Left(b.rect) > WIDTH

\* ------------------------------------------------------------ Meteor
NewMeteor(x, y, vx, vy, rot) ==
    [rect |-> Rect(x, y, METEOR_SIZE, METEOR_SIZE), vx |-> vx, vy |-> vy,
     angle |-> 0, rot_speed |-> rot]

\* a wrap that would keep the distance travelled past the right edge
WrapRight_KeepOvershoot(r) ==
    IF Left(r) > WIDTH THEN [r EXCEPT !.x = @ - (WIDTH + r.w)] ELSE r

\* a meteor that is let go once it has left on the left
WrapLeft_Never(r) == r

\* the four wrap tests of Meteor.update, in the order the code runs them
WrapRight(r) == IF Left(r) > WIDTH THEN [r EXCEPT !.x = 0 - r.w] ELSE r
WrapLeft(r) == IF Right(r) < 0 THEN [r EXCEPT !.x = WIDTH] ELSE r
WrapBottom(r) == IF Top(r) > HEIGHT THEN [r EXCEPT !.y = 0 - r.h] ELSE r
WrapTop(r) == IF Bottom(r) < 0 THEN [r EXCEPT !.y = HEIGHT] ELSE r

\* the rectangle after "rect.x += int(vx*dt); rect.y += int(vy*dt)"
MeteorAdvance(m, dtms) ==
    [m.rect EXCEPT !.x = @ + Trunc(m.vx * dtms, 1000000),
                   !.y = @ + Trunc(m.vy * dtms, 1000000)]

\* Meteor.update(dt)
MeteorUpdate(m, dtms) ==
    [m EXCEPT !.rect = WrapTop(WrapBottom(WrapLeft(WrapRight(MeteorAdvance(m, dtms))))),
              !.angle = (@ + m.rot_speed * dtms) % 360000]

\* ------------------------------------------------------------ Particle
\* Particle.update(dt); fade is True for every particle the game creates
ParticleUpdate(p, dtms) ==
    [life |-> p.life - dtms, size |-> Max(0, p.size - dtms * 10)]

\* a particle that is kept once it has shrunk to nothing
ParticleIsDead_LifeOnly(p) == p.life <= 0

\* Particle.is_dead()
ParticleIsDead(p) == p.life <= 0 \/ p.size <= 0

\* the "len(self.particles) > MAX_PARTICLES" test of _spawn_particles
AtParticleCap(ps) == Len(ps) > MAX_PARTICLES

RECURSIVE SpawnLoop(_, _, _)
SpawnLoop(ps, count, p) ==
    IF count = 0 \/ AtParticleCap(ps) THEN ps
    ELSE SpawnLoop(Append(ps, p), count - 1, p)

\* a burst that is dropped whole when it does not fit under the cap
spawn_particles_AllOrNothing(ps, count, life, size, roll) ==
    IF Len(ps) + count > MAX_PARTICLES THEN ps
    ELSE SpawnLoop(ps, count,
                   [life |-> Uniform((life * 6) \div 10, (life * 12) \div 10, roll),
                    size |-> Uniform((size * 6) \div 10, (size * 13) \div 10, roll)])

\* SpaceFight._spawn_particles(pos, count, color, spread, speed, life, size);
\* life in ms, size in 1/1000 px, roll the generator's draw for this burst
spawn_particles(ps, count, life, size, roll) ==
    SpawnLoop(ps, count,
              [life |-> Uniform((life * 6) \div 10, (life * 12) \div 10, roll),
               size |-> Uniform((size * 6) \div 10, (size * 13) \div 10, roll)])

\* ------------------------------------------------------------ ScreenShake
\* ScreenShake.__init__
ShakeInit == [timer |-> 0, magnitude |-> 0, dir |-> Vec(0, 0)]

\* a trigger that adds to a shake still running
ShakeTrigger_Stacking(sh, magnitude, duration, direction) ==
    [timer |-> Max(sh.timer, 0) + duration,
     magnitude |-> sh.magnitude + magnitude,
     dir |-> direction]

\* ScreenShake.trigger(magnitude, duration, direction) with a direction given
\* (the game always gives (-1,0) or (1,0), which normalize() leaves alone);
\* magnitude in px, duration in microseconds
ShakeTrigger(sh, magnitude, duration, direction) ==
    [timer |-> duration, magnitude |-> magnitude, dir |-> direction]

\* ScreenShake.update(dt), the state it leaves.  The code's timer is a float:
\* where this one reaches exactly 0 the float may keep a residue of either
\* sign; no run below has a call that takes the timer to exactly 0.
ShakeAdvance(sh, dtms) ==
    IF sh.timer > 0 THEN [sh EXCEPT !.timer = @ - dtms * 1000] ELSE sh

\* amp = magnitude * max(0, timer / (timer + 1e-6)) in 1/100 px, timer being
\* the decremented timer t in microseconds (1e-6 s is 1 microsecond; timers
\* are multiples of 1000 here, so t + 1 is never 0)
ShakeAmp(magnitude, t) ==
    IF t > 0 \/ t < -1 THEN Trunc(magnitude * 100 * Abs(t), Abs(t + 1)) ELSE 0

\* ScreenShake.update(dt), the offset it returns; rx, ry are
\* (random.random() - 0.5) * 2 in 1/1000
ShakeOffset(sh, dtms, rx, ry) ==
    IF sh.timer > 0
    THEN LET amp == ShakeAmp(sh.magnitude, sh.timer - dtms * 1000)
         IN  <<Trunc((rx * 6 + sh.dir.x * 4000) * amp, 1000000),
               Trunc((ry * 6 + sh.dir.y * 4000) * amp, 1000000)>>
    ELSE <<0, 0>>

\* ------------------------------------------------------------ ship movement
\* the target_acc of SpaceFight.update from the pressed keys: the later "if"
\* wins when both keys of an axis are down; a diagonal is normalised
TargetAcc(keys, kl, kr, ku, kd) ==
    LET ix == IF kr \in keys THEN 1 ELSE IF kl \in keys THEN -1 ELSE 0
        iy == IF kd \in keys THEN 1 ELSE IF ku \in keys THEN -1 ELSE 0
        a  == IF ix # 0 /\ iy # 0 THEN DIAG_ACCEL ELSE SHIP_ACCEL
    IN  Vec(ix * a, iy * a)

\* "vel += acc * dt; vel -= vel * min(1.0, SHIP_DRAG * dt)" on one axis
Damped(v, a, dtms) ==
    LET v1 == v + a * dtms
    IN  v1 - Trunc(v1 * Min(1000, SHIP_DRAG * dtms), 1000)

\* a clamp that forgets the right edge of the area
ClampToArea_NoRightEdge(pos, area) ==
    Vec(IF pos.x < Left(area) * 1000 THEN Left(area) * 1000 ELSE pos.x,
        Max(0, Min((HEIGHT - SHIP_H) * 1000, pos.y)))

\* the two "if" clamps on x and the max/min clamp on y, against a side area
ClampToArea(pos, area) ==
    LET x1 == IF pos.x < Left(area) * 1000 THEN Left(area) * 1000 ELSE pos.x
        x2 == IF x1 + SHIP_W * 1000 > Right(area) * 1000
              THEN (Right(area) - SHIP_W) * 1000 ELSE x1
    IN  Vec(x2, Max(0, Min((HEIGHT - SHIP_H) * 1000, pos.y)))

left_area == Rect(0, 0, Left(BORDER), HEIGHT)
right_area == Rect(Right(BORDER), 0, WIDTH - Right(BORDER), HEIGHT)

\* one ship's part of SpaceFight.update: accelerate, damp, integrate, clamp
MoveShip(pos, vel, acc, dtms, area) ==
    LET v == Vec(Damped(vel.x, acc.x, dtms), Damped(vel.y, acc.y, dtms))
        p == Vec(pos.x + Trunc(v.x * dtms, 1000), pos.y + Trunc(v.y * dtms, 1000))
    IN  [pos |-> ClampToArea(p, area), vel |-> v]

\* ------------------------------------------------------------ bullets phase
\* index of the first meteor whose rect collides with r, 0 when none does
FirstMeteorHit(ms, r) ==
    IF \E i \in 1..Len(ms) : colliderect(ms[i].rect, r)
    THEN CHOOSE i \in 1..Len(ms) :
            /\ colliderect(ms[i].rect, r)
            /\ \A k \in 1..(i - 1) : ~colliderect(ms[k].rect, r)
    ELSE 0

\* a ship test that forgets who fired the bullet
BulletHitsYellow_AnyOwner(b, ypos) == colliderect(ship_rect(ypos), b.rect)

\* does bullet b damage a ship: the owner test and the rectangle test
BulletHitsRed(b, rpos) == b.owner = "yellow" /\ colliderect(ship_rect(rpos), b.rect)
BulletHitsYellow(b, ypos) == b.owner = "red" /\ colliderect(ship_rect(ypos), b.rect)

\* the meteor a bullet hit: new place and new velocity
RespawnMeteor(m, at, vel) ==
    [m EXCEPT !.rect.x = at.x, !.rect.y = at.y, !.vx = vel.x, !.vy = vel.y]

\* a bullet loop whose meteor branch goes on to the ship tests: the bullet a
\* meteor absorbed also damages the opposing ship it overlaps
BulletStep_NoContinue(st, ypos, rpos, dtms, rnd) ==
    LET b == BulletUpdate(st.bullets[st.i], dtms)
        live == [st.bullets EXCEPT ![st.i] = b]
        hit == FirstMeteorHit(st.meteors, b.rect)
        q == IF BulletHitsRed(b, rpos) THEN Append(st.queue, "RED_HIT")
             ELSE IF BulletHitsYellow(b, ypos) THEN Append(st.queue, "YELLOW_HIT")
             ELSE st.queue
    IN  IF hit # 0
        THEN [st EXCEPT !.particles = spawn_particles(@, 18, 700, 3800, rnd.roll),
                        !.meteors[hit] = RespawnMeteor(@, rnd.relocB, rnd.velB),
                        !.bullets = Remove(live, b),
                        !.queue = q,
                        !.log = Append(@, [ev |-> "bullet_meteor", bullet |-> b, meteor |-> hit])]
        ELSE IF BulletHitsRed(b, rpos) \/ BulletHitsYellow(b, ypos)
        THEN [st EXCEPT !.queue = q, !.bullets = Remove(live, b),
                        !.log = Append(@, [ev |-> IF b.owner = "yellow" THEN "bullet_red"
                                                  ELSE "bullet_yellow",
                                           bullet |-> b])]
        ELSE IF BulletIsDead(b)
        THEN [st EXCEPT !.bullets = Remove(live, b),
                        !.log = Append(@, [ev |-> "bullet_dead", bullet |-> b])]
        ELSE [st EXCEPT !.bullets = live, !.i = @ + 1]

\* the body of "for b in self.bullets[:]" for the bullet at index i of the
\* live list.  st = [bullets, meteors, particles, queue, log, i]; when the bullet
\* is removed the next one slides to index i: list.remove(b) takes the first
\* element equal to b, which lies at or before i.  log records which branch ran.
BulletStep(st, ypos, rpos, dtms, rnd) ==
    LET b == BulletUpdate(st.bullets[st.i], dtms)
        live == [st.bullets EXCEPT ![st.i] = b]
        hit == FirstMeteorHit(st.meteors, b.rect)
    IN  IF hit # 0
        THEN [st EXCEPT !.particles = spawn_particles(@, 18, 700, 3800, rnd.roll),
                        !.meteors[hit] = RespawnMeteor(@, rnd.relocB, rnd.velB),
                        !.bullets = Remove(live, b),
                        !.log = Append(@, [ev |-> "bullet_meteor", bullet |-> b, meteor |-> hit])]
        ELSE IF BulletHitsRed(b, rpos)
        THEN [st EXCEPT !.queue = Append(@, "RED_HIT"), !.bullets = Remove(live, b),
                        !.log = Append(@, [ev |-> "bullet_red", bullet |-> b])]
        ELSE IF BulletHitsYellow(b, ypos)
        THEN [st EXCEPT !.queue = Append(@, "YELLOW_HIT"), !.bullets = Remove(live, b),
                        !.log = Append(@, [ev |-> "bullet_yellow", bullet |-> b])]
        ELSE IF BulletIsDead(b)
        THEN [st EXCEPT !.bullets = Remove(live, b),
                        !.log = Append(@, [ev |-> "bullet_dead", bullet |-> b])]
        ELSE [st EXCEPT !.bullets = live, !.i = @ + 1]

RECURSIVE BulletsPhase(_, _, _, _, _)
BulletsPhase(st, ypos, rpos, dtms, rnd) ==
    IF st.i > Len(st.bullets) THEN st
    ELSE BulletsPhase(BulletStep(st, ypos, rpos, dtms, rnd), ypos, rpos, dtms, rnd)

\* ------------------------------------------------------------ meteors phase
\* "m.rect.x = random.randint(40, WIDTH-40); m.rect.y = ..."
RelocateMeteor(m, at) == [m EXCEPT !.rect.x = at.x, !.rect.y = at.y]

\* the body of "for m in self.meteors" for meteor i; log records a wrap (the
\* rect before and after the four tests), each ship collision (the rect
\* after the advance, the rect tested, the rect the meteor is moved to) and,
\* for every meteor, the rect m.update left and the outcome of the two tests
MeteorStep(st, ypos, rpos, dtms, rnd) ==
    LET adv == MeteorAdvance(st.meteors[st.i], dtms)
        m0 == MeteorUpdate(st.meteors[st.i], dtms)
        hitY == colliderect(m0.rect, ship_rect(ypos))
        m1 == IF hitY THEN RelocateMeteor(m0, rnd.relocY) ELSE m0
        p1 == IF hitY THEN spawn_particles(st.particles, 14, 600, 4500, rnd.roll)
              ELSE st.particles
        q1 == IF hitY THEN Append(st.queue, "YELLOW_HIT") ELSE st.queue
        hitR == colliderect(m1.rect, ship_rect(rpos))
        m2 == IF hitR THEN RelocateMeteor(m1, rnd.relocR) ELSE m1
        p2 == IF hitR THEN spawn_particles(p1, 14, 600, 4500, rnd.roll) ELSE p1
        q2 == IF hitR THEN Append(q1, "RED_HIT") ELSE q1
        l0 == IF m0.rect # adv
              THEN Append(st.log, [ev |-> "wrap", meteor |-> st.i, from |-> adv, to |-> m0.rect])
              ELSE st.log
        l1 == IF hitY
              THEN Append(l0, [ev |-> "meteor_yellow", meteor |-> st.i, adv |-> m0.rect,
                               at |-> m0.rect, to |-> m1.rect])
              ELSE l0
        l2 == IF hitR
              THEN Append(l1, [ev |-> "meteor_red", meteor |-> st.i, adv |-> m0.rect,
                               at |-> m1.rect, to |-> m2.rect])
              ELSE l1
        l3 == Append(l2, [ev |-> "meteor_step", meteor |-> st.i, rect |-> m0.rect,
                          hitY |-> hitY, hitR |-> hitR])
    IN  [st EXCEPT !.meteors[st.i] = m2, !.particles = p2, !.queue = q2, !.log = l3,
                   !.i = @ + 1]

RECURSIVE MeteorsPhase(_, _, _, _, _)
MeteorsPhase(st, ypos, rpos, dtms, rnd) ==
    IF st.i > Len(st.meteors) THEN st
    ELSE MeteorsPhase(MeteorStep(st, ypos, rpos, dtms, rnd), ypos, rpos, dtms, rnd)

\* ------------------------------------------------------------ particles phase
\* the body of "for p in self.particles[:]: p.update(dt); if p.is_dead():
\* remove(p)" for the particle at index i of the live list, st = [ps, i, dt];
\* as in the bullets phase a removal slides the next particle to index i
ParticleStep(st) ==
    LET p == ParticleUpdate(st.ps[st.i], st.dt)
        live == [st.ps EXCEPT ![st.i] = p]
    IN  IF ParticleIsDead(p)
        THEN [st EXCEPT !.ps = Remove(live, p)]
        ELSE [st EXCEPT !.ps = live, !.i = @ + 1]

\* k iterations of the loop, one after the other (split in halves to keep the
\* evaluation shallow)
RECURSIVE ParticleSteps(_, _)
ParticleSteps(st, k) ==
    IF k = 0 THEN st
    ELSE IF k = 1 THEN ParticleStep(st)
    ELSE LET half == ParticleSteps(st, k \div 2)
         IN  IF half.i > 0 THEN ParticleSteps(half, k - (k \div 2)) ELSE half

\* the particles phase of SpaceFight.update: one iteration per particle of the
\* snapshot self.particles[:]
ParticlesPhase(ps, dtms) ==
    ParticleSteps([ps |-> ps, i |-> 1, dt |-> dtms], Len(ps)).ps

\* ------------------------------------------------------------ state
VARIABLES
    env,                    \* the name of the run's environment, see E
    pc,                     \* where SpaceFight.run is
    op,                     \* the step run() took last
    frames,                 \* display flips so far
    dt,                     \* dt_ms of the current frame
    batch,                  \* the events of pygame.event.get() still to handle
    queue,                  \* events posted since the last pygame.event.get()
    yellow_pos, yellow_vel, red_pos, red_vel,
    yellow_health, red_health,
    yellow_health_display, red_health_display,
    bullets, meteors, particles,
    shake, shake_offset, hit_flash,
    winner,                 \* the winner text of the last frame drawn, "" if none
    log,                    \* what the last update did: removals, wraps, collisions
    shake_prev,             \* the shake the last trigger() call found
    course                  \* per meteor: where it was last placed (spawned, moved
                            \* by a collision, wrapped) and the ms advanced since

vars == <<env, pc, op, frames, dt, batch, queue, yellow_pos, yellow_vel, red_pos,
          red_vel, yellow_health, red_health, yellow_health_display,
          red_health_display, bullets, meteors, particles, shake, shake_offset,
          hit_flash, winner, log, shake_prev, course>>

ships == <<yellow_pos, yellow_vel, red_pos, red_vel>>
healths == <<yellow_health, red_health>>
displays == <<yellow_health_display, red_health_display>>

\* SpaceFight._count_owner_bullets
count_owner_bullets(bs, owner) == Cardinality({i \in 1..Len(bs) : bs[i].owner = owner})

\* ------------------------------------------------------------ handle_fire
\* the muzzle rectangles of SpaceFight.handle_fire
YellowMuzzle(pos) ==
    Rect(Trunc(pos.x + (SHIP_W \div 2) * 1000, 1000),
         Trunc(pos.y + ((SHIP_H \div 2) - (BULLET_H \div 2)) * 1000, 1000),
         BULLET_W, BULLET_H)
RedMuzzle(pos) ==
    Rect(Trunc(pos.x - ((SHIP_W \div 2) + BULLET_W) * 1000, 1000),
         Trunc(pos.y + ((SHIP_H \div 2) - (BULLET_H \div 2)) * 1000, 1000),
         BULLET_W, BULLET_H)

\* a guard that is off by one
MayFire_OffByOne(bs, owner) == count_owner_bullets(bs, owner) <= MAX_BULLETS

\* the guard of each "if" of handle_fire
MayFire(bs, owner) == count_owner_bullets(bs, owner) < MAX_BULLETS

\* a fire handler that shows the muzzle flash of a refused shot
handle_fire_FlashAlways(key, bs, ps, ypos, rpos, roll) ==
    LET fy == key = "K_LCTRL" /\ MayFire(bs, "yellow")
        b1 == IF fy THEN Append(bs, NewBullet(YellowMuzzle(ypos), BULLET_SPEED, "yellow"))
              ELSE bs
        p1 == IF key = "K_LCTRL" THEN spawn_particles(ps, 6, 180, 3000, roll) ELSE ps
        fr == key = "K_RCTRL" /\ MayFire(b1, "red")
        b2 == IF fr THEN Append(b1, NewBullet(RedMuzzle(rpos), 0 - BULLET_SPEED, "red"))
              ELSE b1
        p2 == IF key = "K_RCTRL" THEN spawn_particles(p1, 6, 180, 3000, roll) ELSE p1
    IN  [bullets |-> b2, particles |-> p2]

\* SpaceFight.handle_fire(key): the bullets and particles it leaves
handle_fire(key, bs, ps, ypos, rpos, roll) ==
    LET fy == key = "K_LCTRL" /\ MayFire(bs, "yellow")
        b1 == IF fy THEN Append(bs, NewBullet(YellowMuzzle(ypos), BULLET_SPEED, "yellow"))
              ELSE bs
        p1 == IF fy THEN spawn_particles(ps, 6, 180, 3000, roll) ELSE ps
        fr == key = "K_RCTRL" /\ MayFire(b1, "red")
        b2 == IF fr THEN Append(b1, NewBullet(RedMuzzle(rpos), 0 - BULLET_SPEED, "red"))
              ELSE b1
        p2 == IF fr THEN spawn_particles(p1, 6, 180, 3000, roll) ELSE p1
    IN  [bullets |-> b2, particles |-> p2]

\* a decrement without the floor at 0
Damage_NoFloor(h) == h - 1

\* "self.x_health = max(0, self.x_health - 1)"
Damage(h) == Max(0, h - 1)

\* the winner text SpaceFight.draw renders, "" when it renders none
WinnerText(yh, rh) ==
    IF yh <= 0 \/ rh <= 0
    THEN (IF yh <= 0 THEN "Red Wins!" ELSE "Yellow Wins!")
    ELSE ""

\* an end test that waits for both ships to be destroyed
MatchOver_BothDown(yh, rh) == rh <= 0 /\ yh <= 0

\* the test of run() that ends the match
MatchOver(yh, rh) == rh <= 0 \/ yh <= 0

\* ------------------------------------------------------------ environment
\* The frames each kind of run may last.
DriveFrames == 90
DuelFrames == 26
StormFrames == 15
FreeFrames == 3
DriftFrames == 80
ShieldFrames == 9
BarrageFrames == 9
SentryFrames == 60
\* The longest a meteor's course is timed, in ms.
CourseMs == 9000

\* SpaceFight._spawn_meteor(center=True): dx, dy are the two randint(-40, 40),
\* vel is (cos, sin)(angle) * METEOR_VEL, rot the rot_speed
spawn_meteor_center(dx, dy, vel, rot) ==
    NewMeteor((WIDTH \div 2) + dx, (HEIGHT \div 2) + dy, vel.x, vel.y, rot)

\* A run's environment: the values the clock (dts), the event queue (fires),
\* pygame.key.get_pressed() (ykeys, rkeys) and the random module (the rest)
\* may deliver.  Every field is a set; each use draws from it afresh.
\*   dts     clock.tick(FPS), ms: at least 1000 / FPS, more when a frame stalls
\*   fires   the user events one pygame.event.get() returns
\*   spawns  the three meteors __init__ creates
\*   rolls   random.uniform's draw for a particle burst, percent
\*   relocB, velB   place and velocity of a meteor a bullet hit
\*   relocY, relocR place of a meteor that hit the yellow / the red ship
\*   jitter  (rx, ry) of ScreenShake.update, 1/1000
South == Vec(0, 70000)
North == Vec(0, -70000)
East == Vec(70000, 0)
West == Vec(-70000, 0)
Slow == Vec(35000, -60621)
\* a velocity only a bullet hit gives (its vx and vy come from separate draws)
Still == Vec(56, 0)

OnYellow == Vec(120, 250)
OnRed == Vec(760, 250)
Aside == Vec(450, 50)
OnRedLow == Vec(800, 290)

Quiet ==
    [name |-> "quiet", horizon |-> 0, dts |-> {100}, fires |-> {<<>>},
     ykeys |-> {{}}, rkeys |-> {{}},
     spawns |-> {<<spawn_meteor_center(-40, 40, South, 45),
                   spawn_meteor_center(0, 40, South, -90),
                   spawn_meteor_center(40, 40, North, 0)>>},
     rolls |-> {0}, relocB |-> {Aside}, velB |-> {South},
     relocY |-> {Aside}, relocR |-> {Aside}, jitter |-> {Vec(0, 0)}]

\* both ships are driven into their outer corners
DriveOut ==
    [Quiet EXCEPT !.name = "driveOut", !.horizon = DriveFrames, !.dts = {42},
                  !.ykeys = {{"a", "w"}}, !.rkeys = {{"RIGHT", "DOWN"}}]

\* both ships are driven toward the border, the yellow one with both a and d down
DriveIn ==
    [Quiet EXCEPT !.name = "driveIn", !.horizon = DriveFrames, !.dts = {42},
                  !.ykeys = {{"a", "d", "s"}}, !.rkeys = {{"LEFT"}}]

\* both ships fire on every frame and stand still
DuelBoth ==
    [Quiet EXCEPT !.name = "duelBoth", !.horizon = DuelFrames,
                  !.fires = {<<"K_LCTRL", "K_RCTRL">>}]

\* only the yellow ship fires
DuelYellow ==
    [Quiet EXCEPT !.name = "duelYellow", !.horizon = DuelFrames,
                  !.fires = {<<"K_LCTRL", "K_SPACE">>}, !.rolls = {50}]

\* a bullet knocks a meteor onto a ship, and each ship hit sends it onto the other
Storm ==
    [Quiet EXCEPT !.name = "storm", !.horizon = StormFrames, !.dts = {50},
                  !.fires = {<<"K_LCTRL">>},
                  !.spawns = {<<spawn_meteor_center(-40, 0, West, 45),
                                spawn_meteor_center(0, 40, South, -90),
                                spawn_meteor_center(40, 40, North, 0)>>},
                  !.rolls = {99}, !.relocB = {OnYellow}, !.velB = {Still},
                  !.relocY = {OnRed}, !.relocR = {OnYellow}]

\* a bullet knocks a meteor onto the red ship, where it stays, in the way of
\* the yellow bullets that follow
Shield ==
    [Quiet EXCEPT !.name = "shield", !.horizon = ShieldFrames, !.dts = {100},
                  !.fires = {<<"K_LCTRL">>},
                  !.spawns = {<<spawn_meteor_center(-40, 0, West, 45),
                                spawn_meteor_center(0, -40, North, -90),
                                spawn_meteor_center(40, 40, South, 0)>>},
                  !.rolls = {0}, !.relocB = {OnRed}, !.velB = {Still},
                  !.relocY = {Aside}, !.relocR = {OnRed}]

\* a bullet knocks a meteor onto the lower half of the red ship, below the line
\* of fire: it hits the ship in every frame, and so do the yellow bullets
Barrage ==
    [Shield EXCEPT !.name = "barrage", !.horizon = BarrageFrames,
                   !.relocB = {OnRedLow}, !.relocR = {OnRedLow}]

\* 60 frames a second; the red ship moves up out of the line of fire and the
\* yellow ship fires whenever it may, until somebody closes the window; the
\* meteors, slower than a pixel a frame on both axes, stand where they spawned
Sentry ==
    [Quiet EXCEPT !.name = "sentry", !.horizon = SentryFrames, !.dts = {16},
                  !.fires = {<<"K_LCTRL">>, <<"QUIT">>},
                  !.rkeys = {{"UP"}},
                  !.spawns = {<<spawn_meteor_center(-40, -40, Slow, 0),
                                spawn_meteor_center(0, -40, Slow, 0),
                                spawn_meteor_center(40, -40, Slow, 0)>>}]

\* nobody plays; the meteors drift, meet the ships and leave through the edges
Drift ==
    [Quiet EXCEPT !.name = "drift", !.horizon = DriftFrames,
                  !.spawns = {<<spawn_meteor_center(40, 40, East, 45),
                                spawn_meteor_center(-40, -40, West, -90),
                                spawn_meteor_center(0, 0, South, 0)>>,
                              <<spawn_meteor_center(0, 0, North, 45),
                                spawn_meteor_center(-40, 0, Slow, -90),
                                spawn_meteor_center(40, 0, Slow, 0)>>},
                  !.relocY = {Vec(40, 460)}, !.relocR = {Vec(860, 40)}]

\* a few frames of anything
Free ==
    [Quiet EXCEPT !.name = "free", !.horizon = FreeFrames, !.dts = {16, 300},
                  !.fires = {<<>>, <<"K_RCTRL">>, <<"QUIT">>,
                             <<"K_LCTRL", "K_LCTRL", "K_LCTRL", "K_LCTRL", "K_LCTRL">>},
                  !.ykeys = {{}, {"d"}}, !.rkeys = {{"UP", "LEFT"}},
                  !.spawns = {<<spawn_meteor_center(-40, 0, Slow, 45),
                                spawn_meteor_center(0, 40, South, -90),
                                spawn_meteor_center(40, -40, West, 0)>>},
                  !.relocB = {OnYellow},
                  !.jitter = {Vec(-1000, -1000), Vec(999, 0)}]

Environments == {DriveOut, DriveIn, DuelBoth, DuelYellow, Storm, Shield, Barrage, Sentry, Drift, Free}

\* the state holds the environment's name; E is the environment itself
E == CHOOSE e \in Environments : e.name = env

\* ------------------------------------------------------------ SpaceFight.__init__
Init ==
    /\ env \in {e.name : e \in Environments}
    /\ pc = "tick"
    /\ op = "init"
    /\ frames = 0
    /\ dt = 0
    /\ batch = <<>>
    /\ queue = <<>>
    /\ yellow_pos = Vec(120000, (HEIGHT * 1000) \div 2)
    /\ red_pos = Vec(760000, (HEIGHT * 1000) \div 2)
    /\ yellow_vel = Vec(0, 0)
    /\ red_vel = Vec(0, 0)
    /\ yellow_health = MAX_HEALTH
    /\ red_health = MAX_HEALTH
    /\ yellow_health_display = MAX_HEALTH * 1000
    /\ red_health_display = MAX_HEALTH * 1000
    /\ bullets = <<>>
    /\ meteors \in E.spawns
    /\ particles = <<>>
    /\ shake = ShakeInit
    /\ shake_offset = <<0, 0>>
    /\ hit_flash = 0
    /\ winner = ""
    /\ log = <<>>
    /\ shake_prev = ShakeInit
    /\ course = [i \in 1..Len(meteors) |-> [from |-> meteors[i].rect, ms |-> 0]]

\* ------------------------------------------------------------ SpaceFight.run
\* how many times kind stands in the sequence of posted events q
Posted(q, kind) == Cardinality({k \in 1..Len(q) : q[k] = kind})

\* a queue that keeps one hit message per ship
event_get_Coalesced(posted, user) ==
    SelectSeq(posted \o user,
              LAMBDA e : e \notin {"RED_HIT", "YELLOW_HIT"})
        \o (IF \E k \in 1..Len(posted) : posted[k] = "RED_HIT" THEN <<"RED_HIT">> ELSE <<>>)
        \o (IF \E k \in 1..Len(posted) : posted[k] = "YELLOW_HIT" THEN <<"YELLOW_HIT">> ELSE <<>>)

\* pygame.event.get(): every event posted since the last call, in the order
\* posted, then what the user did meanwhile; the queue is left empty
event_get(posted, user) == posted \o user

\* "dt_ms = self.clock.tick(FPS)" and "pygame.event.get()": the events posted by
\* the last update come out first, then what the user did meanwhile
Poll ==
    /\ pc = "tick"
    /\ \E d \in E.dts, ev \in E.fires :
          /\ dt' = d
          /\ batch' = event_get(queue, ev)
    /\ queue' = <<>>
    /\ pc' = "events"
    /\ op' = "tick"
    /\ UNCHANGED <<env, frames, ships, healths, displays, bullets, meteors,
                   particles, shake, shake_offset, hit_flash, winner, log, shake_prev, course>>

\* the start of one more pass of "while True", in a run of at most E.horizon frames
Tick == frames < E.horizon /\ Poll

\* "if event.type == pygame.QUIT: pygame.quit(); sys.exit()"
HandleQuit ==
    /\ pc = "events" /\ batch # <<>> /\ Head(batch) = "QUIT"
    /\ pc' = "exit"
    /\ op' = "quit"
    /\ UNCHANGED <<env, frames, dt, batch, queue, ships, healths, displays, bullets,
                   meteors, particles, shake, shake_offset, hit_flash, winner, log, shake_prev, course>>

KeyDowns == {"K_LCTRL", "K_RCTRL", "K_SPACE"}

\* "if event.type == pygame.KEYDOWN: self.handle_fire(event.key)"
HandleKeyDown ==
    /\ pc = "events" /\ batch # <<>> /\ Head(batch) \in KeyDowns
    /\ \E roll \in E.rolls :
          LET r == handle_fire(Head(batch), bullets, particles, yellow_pos, red_pos, roll)
          IN  /\ bullets' = r.bullets
              /\ particles' = r.particles
              /\ op' = IF r.bullets # bullets THEN "fire"
                       ELSE IF Head(batch) = "K_LCTRL" THEN "no_fire_yellow"
                       ELSE IF Head(batch) = "K_RCTRL" THEN "no_fire_red"
                       ELSE "no_fire"
    /\ batch' = Tail(batch)
    /\ UNCHANGED <<env, pc, frames, dt, queue, ships, healths, displays, meteors,
                   shake, shake_offset, hit_flash, winner, log, shake_prev, course>>

\* "if event.type == RED_HIT: ..."
HandleRedHit ==
    /\ pc = "events" /\ batch # <<>> /\ Head(batch) = "RED_HIT"
    /\ red_health' = Damage(red_health)
    /\ shake' = ShakeTrigger(shake, 10, 350000, Vec(-1, 0))
    /\ shake_prev' = shake
    /\ \E roll \in E.rolls :
          particles' = spawn_particles(particles, HIT_BURST, 800, 5000, roll)
    /\ hit_flash' = 9000
    /\ batch' = Tail(batch)
    /\ op' = IF red_health > 0 THEN "red_hit" ELSE "red_hit_at_0"
    /\ UNCHANGED <<env, pc, frames, dt, queue, ships, yellow_health, displays,
                   bullets, meteors, shake_offset, winner, log, course>>

\* "if event.type == YELLOW_HIT: ..."
HandleYellowHit ==
    /\ pc = "events" /\ batch # <<>> /\ Head(batch) = "YELLOW_HIT"
    /\ yellow_health' = Damage(yellow_health)
    /\ shake' = ShakeTrigger(shake, 10, 350000, Vec(1, 0))
    /\ shake_prev' = shake
    /\ \E roll \in E.rolls :
          particles' = spawn_particles(particles, HIT_BURST, 800, 5000, roll)
    /\ hit_flash' = 9000
    /\ batch' = Tail(batch)
    /\ op' = IF yellow_health > 0 THEN "yellow_hit" ELSE "yellow_hit_at_0"
    /\ UNCHANGED <<env, pc, frames, dt, queue, ships, red_health, displays,
                   bullets, meteors, shake_offset, winner, log, course>>

\* the course of each meteor after an update that left the log lg and the
\* meteors ms: a meteor the update placed anew (a wrap, a ship collision, a
\* bullet hit) starts a new course where it now is; any other has advanced by
\* one more frame of dtms (the time is no longer counted once it is CourseMs)
CourseAfter(cs, lg, ms, dtms) ==
    LET placed == {lg[k].meteor : k \in {n \in 1..Len(lg) :
                      lg[n].ev \in {"wrap", "meteor_yellow", "meteor_red", "bullet_meteor"}}}
    IN  [i \in 1..Len(ms) |->
            IF i \in placed THEN [from |-> ms[i].rect, ms |-> 0]
            ELSE [cs[i] EXCEPT !.ms = Min(CourseMs, @ + dtms)]]

\* SpaceFight.update(dt), run when the batch is handled and nobody is at 0
Update ==
    /\ pc = "events" /\ batch = <<>>
    /\ ~MatchOver(yellow_health, red_health)
    /\ \E ky \in E.ykeys, kr \in E.rkeys, roll \in E.rolls,
          rb \in E.relocB, vb \in E.velB, ry \in E.relocY, rr \in E.relocR :
          LET rnd == [roll |-> roll, relocB |-> rb, velB |-> vb,
                      relocY |-> ry, relocR |-> rr]
              y == MoveShip(yellow_pos, yellow_vel,
                            TargetAcc(ky, "a", "d", "w", "s"), dt, left_area)
              r == MoveShip(red_pos, red_vel,
                            TargetAcc(kr, "LEFT", "RIGHT", "UP", "DOWN"), dt, right_area)
              s1 == BulletsPhase([bullets |-> bullets, meteors |-> meteors,
                                  particles |-> particles, queue |-> queue,
                                  log |-> <<>>, i |-> 1],
                                 y.pos, r.pos, dt, rnd)
              s2 == MeteorsPhase([s1 EXCEPT !.i = 1], y.pos, r.pos, dt, rnd)
          IN  /\ yellow_pos' = y.pos /\ yellow_vel' = y.vel
              /\ red_pos' = r.pos /\ red_vel' = r.vel
              /\ bullets' = s2.bullets
              /\ meteors' = s2.meteors
              /\ particles' = ParticlesPhase(s2.particles, dt)
              /\ queue' = s2.queue
              /\ log' = IF Len(particles') < Len(s2.particles)
                        THEN Append(s2.log, [ev |-> "pruned",
                                             n |-> Len(s2.particles) - Len(particles')])
                        ELSE s2.log
              /\ course' = CourseAfter(course, s2.log, s2.meteors, dt)
    /\ hit_flash' = IF hit_flash > 0 THEN Max(0, hit_flash - dt * 25) ELSE hit_flash
    /\ yellow_health_display' =
          lerp(yellow_health_display, yellow_health * 1000, Min(1000, dt * 6))
    /\ red_health_display' =
          lerp(red_health_display, red_health * 1000, Min(1000, dt * 6))
    /\ pc' = "draw"
    /\ op' = "update"
    /\ UNCHANGED <<env, frames, dt, batch, healths, shake, shake_offset, winner,
                   shake_prev>>

\* what SpaceFight.draw(dt) changes: the shake, and the winner text on screen
DrawScreen ==
    /\ shake' = ShakeAdvance(shake, dt)
    /\ \E j \in E.jitter : shake_offset' = ShakeOffset(shake, dt, j.x, j.y)
    /\ winner' = WinnerText(yellow_health, red_health)

\* one call of SpaceFight.draw(dt), counted
DrawFrame == DrawScreen /\ frames' = frames + 1

\* a loop that applies the hits its update posted before it draws the frame
Draw_HitsFirst ==
    /\ pc = "draw"
    /\ red_health' = Max(0, red_health - Posted(queue, "RED_HIT"))
    /\ yellow_health' = Max(0, yellow_health - Posted(queue, "YELLOW_HIT"))
    /\ queue' = <<>>
    /\ DrawFrame
    /\ pc' = "tick"
    /\ op' = "draw"
    /\ UNCHANGED <<env, dt, batch, ships, displays, bullets,
                   meteors, particles, hit_flash, log, shake_prev, course>>

\* "self.draw(dt)" after the update
Draw ==
    /\ pc = "draw"
    /\ DrawFrame
    /\ pc' = "tick"
    /\ op' = "draw"
    /\ UNCHANGED <<env, dt, batch, queue, ships, healths, displays, bullets,
                   meteors, particles, hit_flash, log, shake_prev, course>>

\* "if self.red_health <= 0 or self.yellow_health <= 0: self.draw(dt);
\*  pygame.time.delay(1800); break", then pygame.quit()
FinalFrame ==
    /\ pc = "events" /\ batch = <<>>
    /\ MatchOver(yellow_health, red_health)
    /\ DrawFrame
    /\ pc' = "done"
    /\ op' = "final"
    /\ UNCHANGED <<env, dt, batch, queue, ships, healths, displays, bullets,
                   meteors, particles, hit_flash, log, shake_prev, course>>

Next ==
    \/ Tick
    \/ HandleQuit
    \/ HandleKeyDown
    \/ HandleRedHit
    \/ HandleYellowHit
    \/ Update
    \/ Draw
    \/ FinalFrame

Spec == Init /\ [][Next]_vars

\* ------------------------------------------------------------ runs without end
\* The loop of run() passes again and again: no step of it waits for anything
\* but the clock.  The runs whose state repeats are followed without a bound
\* on their frames, and so without counting these.
LiveEnvironments == {"sentry", "duelBoth"}

LiveInit == Init /\ env \in LiveEnvironments

\* "self.draw(dt)" after the update, not counted
LiveDraw ==
    /\ pc = "draw"
    /\ DrawScreen
    /\ pc' = "tick"
    /\ op' = "draw"
    /\ UNCHANGED <<env, frames, dt, batch, queue, ships, healths, displays, bullets,
                   meteors, particles, hit_flash, log, shake_prev, course>>

LiveNext ==
    \/ Poll
    \/ HandleQuit
    \/ HandleKeyDown
    \/ HandleRedHit
    \/ HandleYellowHit
    \/ Update
    \/ LiveDraw
    \/ FinalFrame

\* "if ...health <= 0: ..." did not end the match and the for loop over the
\* events is through: run() goes on to self.update(dt)
UpdateDue == pc = "events" /\ batch = <<>> /\ ~MatchOver(yellow_health, red_health)

\* run() is a "while True" loop of one thread: once a statement of its body can
\* run it does run, so no pass stops between two statements.  The update step
\* is the one step that leaves pc = "events" for pc = "draw", and it can be
\* taken exactly when UpdateDue holds; its fairness is stated on that move.
LiveSpec ==
    /\ LiveInit
    /\ [][LiveNext]_vars
    /\ WF_vars(Poll \/ HandleQuit \/ HandleKeyDown \/ HandleRedHit \/ HandleYellowHit
                   \/ LiveDraw \/ FinalFrame)
    /\ WF_pc(UpdateDue /\ pc' = "draw")

\* ============================================================ properties
\* what the log of the last update holds
Logged(e) == {i \in 1..Len(log) : log[i].ev = e}

\* the step of run() that handles the posted hit at the head of the batch
HitStep(kind) ==
    pc = "events" /\ batch # <<>> /\ Head(batch) = kind /\ batch' = Tail(batch)

\* the step of run() that handles a key press at the head of the batch
FireStep(key) ==
    pc = "events" /\ batch # <<>> /\ Head(batch) = key /\ batch' = Tail(batch)

\* the update step of run()
UpdateStep == pc = "events" /\ pc' = "draw"

\* ------------------------------------------------------------ C1
\* C1: in every state, and so after every update step, the yellow ship has
\* 0 <= x and x + SHIP_W <= BORDER.left, the red ship has BORDER.right <= x
\* and x + SHIP_W <= WIDTH, and both have 0 <= y <= HEIGHT - SHIP_H; this holds
\* of the float position (in 1/1000 px) and of the rectangle drawn from it.
ShipsStayInside ==
    /\ 0 <= yellow_pos.x /\ yellow_pos.x + SHIP_W * 1000 <= Left(BORDER) * 1000
    /\ Right(BORDER) * 1000 <= red_pos.x /\ red_pos.x + SHIP_W * 1000 <= WIDTH * 1000
    /\ 0 <= yellow_pos.y /\ yellow_pos.y <= (HEIGHT - SHIP_H) * 1000
    /\ 0 <= red_pos.y /\ red_pos.y <= (HEIGHT - SHIP_H) * 1000
    /\ 0 <= Left(ship_rect(yellow_pos))
    /\ Right(ship_rect(yellow_pos)) <= Left(BORDER)
    /\ Right(BORDER) <= Left(ship_rect(red_pos))
    /\ Right(ship_rect(red_pos)) <= WIDTH
    /\ \A pos \in {yellow_pos, red_pos} :
           0 <= Top(ship_rect(pos)) /\ Top(ship_rect(pos)) <= HEIGHT - SHIP_H

\* an update has pushed both ships against their outer walls while they still
\* carry speed into the wall: the clamps are what holds them
ShipsHeldAtWalls ==
    /\ op = "update"
    /\ yellow_pos.x = 0 /\ yellow_vel.x < 0
    /\ red_pos.x = (WIDTH - SHIP_W) * 1000 /\ red_vel.x > 0
    /\ red_pos.y = (HEIGHT - SHIP_H) * 1000 /\ red_vel.y > 0

\* ------------------------------------------------------------ C2
\* C2: no step increases a ship's health, health is within 0..max_health
\* before and after every step, and a hit handled at health 0 leaves it at 0.
HealthNeverIncreases ==
    [][/\ yellow_health' <= yellow_health
       /\ red_health' <= red_health
       /\ {yellow_health, red_health, yellow_health', red_health'} \subseteq 0..MAX_HEALTH
       /\ (HitStep("RED_HIT") /\ red_health = 0 => red_health' = 0)
       /\ (HitStep("YELLOW_HIT") /\ yellow_health = 0 => yellow_health' = 0)]_vars

\* a hit has just been handled for a ship that was already at health 0
HitAtZeroHandled ==
    \/ op = "red_hit_at_0" /\ red_health = 0
    \/ op = "yellow_hit_at_0" /\ yellow_health = 0

\* ------------------------------------------------------------ C3
\* C3: each owner has at most MAX_BULLETS live bullets in the initial state and
\* after every step, and a fire request handled while the owner has
\* MAX_BULLETS live bullets leaves the bullet list as it was.
BulletCapPerOwner ==
    /\ \A o \in {"yellow", "red"} : count_owner_bullets(bullets, o) <= MAX_BULLETS
    /\ [][/\ \A o \in {"yellow", "red"} : count_owner_bullets(bullets', o) <= MAX_BULLETS
          /\ (FireStep("K_LCTRL") /\ count_owner_bullets(bullets, "yellow") = MAX_BULLETS
                => bullets' = bullets)
          /\ (FireStep("K_RCTRL") /\ count_owner_bullets(bullets, "red") = MAX_BULLETS
                => bullets' = bullets)]_vars

\* yellow's fire request has just been refused with four yellow bullets live
FifthFireRefused ==
    op = "no_fire_yellow" /\ count_owner_bullets(bullets, "yellow") = MAX_BULLETS

\* ------------------------------------------------------------ C4
\* C4: when an update ends, no live bullet has lifetime <= 0, right edge < 0 or
\* left edge > WIDTH; every live bullet is the advance of a bullet that was
\* live when the update began, and the bullets kept and the bullets removed
\* add up to the bullets that were live then (bullets are compared by value, as
\* list.remove does), so a removed bullet is never advanced or tested again.
DeadBulletsRemoved ==
    [][UpdateStep =>
         /\ \A i \in 1..Len(bullets') :
               /\ bullets'[i].life > 0
               /\ bullets'[i].rect.x + bullets'[i].rect.w >= 0
               /\ bullets'[i].rect.x <= WIDTH
               /\ \E j \in 1..Len(bullets) : bullets'[i] = BulletUpdate(bullets[j], dt)
         /\ \A i \in 1..Len(log') :
               "bullet" \in DOMAIN log'[i] =>
                   \E j \in 1..Len(bullets) : log'[i].bullet = BulletUpdate(bullets[j], dt)
         /\ Len(bullets') + Cardinality({i \in 1..Len(log') : "bullet" \in DOMAIN log'[i]})
                = Len(bullets)]_vars

\* an update has just removed a bullet because it left the arena
BulletLeftArena ==
    /\ op = "update"
    /\ \E i \in Logged("bullet_dead") :
           Right(log[i].bullet.rect) < 0 \/ Left(log[i].bullet.rect) > WIDTH

\* ------------------------------------------------------------ C5
\* C5 as stated: whenever an update wraps a meteor, its position after the wrap
\* differs from the position on its straight-line path by a multiple of WIDTH
\* on x and of HEIGHT on y.
WrapIsCongruent ==
    \A i \in Logged("wrap") :
        /\ (log[i].to.x - log[i].from.x) % WIDTH = 0
        /\ (log[i].to.y - log[i].from.y) % HEIGHT = 0

\* C5: whenever an update wraps a meteor, the meteor is put just outside the
\* opposite edge whatever distance it had gone past the edge it left: right
\* edge at 0 after leaving on the right, left edge at WIDTH after leaving on
\* the left, bottom edge at 0 after leaving at the bottom, top edge at HEIGHT
\* after leaving at the top; an axis that is not wrapped keeps its coordinate.
WrapToOppositeEdge ==
    \A i \in Logged("wrap") :
        LET from == log[i].from
            to == log[i].to
        IN  /\ to.w = from.w /\ to.h = from.h
            /\ to.x = (IF from.x > WIDTH THEN 0 - from.w
                       ELSE IF from.x + from.w < 0 THEN WIDTH ELSE from.x)
            /\ to.y = (IF from.y > HEIGHT THEN 0 - from.h
                       ELSE IF from.y + from.h < 0 THEN HEIGHT ELSE from.y)

\* an update has just wrapped a meteor that had gone more than one pixel past
\* the right edge
MeteorWrappedRight ==
    /\ op = "update"
    /\ \E i \in Logged("wrap") :
           log[i].from.x > WIDTH + 1 /\ Right(log[i].to) = 0

\* ------------------------------------------------------------ C6
\* the particles a burst of HIT_BURST adds to n live ones
Burst(n) == Min(HIT_BURST, Max(0, MAX_PARTICLES + 1 - n))

\* C6 as stated: a hit handled for a ship with health h > 0 leaves it h - 1,
\* adds at least one particle, and leaves the shake timer above 0.
HitAddsParticle ==
    [][/\ (HitStep("RED_HIT") /\ red_health > 0 =>
              /\ red_health' = red_health - 1
              /\ Len(particles') >= Len(particles) + 1
              /\ shake'.timer > 0)
       /\ (HitStep("YELLOW_HIT") /\ yellow_health > 0 =>
              /\ yellow_health' = yellow_health - 1
              /\ Len(particles') >= Len(particles) + 1
              /\ shake'.timer > 0)]_vars

\* C6: a hit handled for a ship with health h > 0 leaves it h - 1 and leaves
\* the shake timer above 0; with n particles live its burst adds
\* min(HIT_BURST, MAX_PARTICLES + 1 - n) particles after the live ones, which
\* is at least one when n <= MAX_PARTICLES and none when n > MAX_PARTICLES.
HitEffects ==
    [][/\ (HitStep("RED_HIT") /\ red_health > 0 =>
              /\ red_health' = red_health - 1
              /\ Len(particles') = Len(particles) + Burst(Len(particles))
              /\ SubSeq(particles', 1, Len(particles)) = particles
              /\ (Len(particles) <= MAX_PARTICLES => Len(particles') > Len(particles))
              /\ shake'.timer > 0)
       /\ (HitStep("YELLOW_HIT") /\ yellow_health > 0 =>
              /\ yellow_health' = yellow_health - 1
              /\ Len(particles') = Len(particles) + Burst(Len(particles))
              /\ SubSeq(particles', 1, Len(particles)) = particles
              /\ (Len(particles) <= MAX_PARTICLES => Len(particles') > Len(particles))
              /\ shake'.timer > 0)]_vars

\* the first hit on the red ship has just been handled: health 9, a whole
\* burst among the live particles, the shake running
FirstHitHandled ==
    /\ op = "red_hit"
    /\ red_health = MAX_HEALTH - 1
    /\ Len(particles) >= HIT_BURST
    /\ shake.timer > 0

\* ------------------------------------------------------------ C7
\* C7: when the loop, its events handled, finds a health at 0, its one step is
\* the final frame: the frame count goes up by one, the loop is done, and
\* ships, healths, bullets, meteors, particles and the posted events are left
\* alone; nothing runs once the loop is done.
FinalFrameThenStop ==
    [][/\ (pc = "events" /\ batch = <<>> /\ (red_health <= 0 \/ yellow_health <= 0) =>
              /\ pc' = "done"
              /\ frames' = frames + 1
              /\ UNCHANGED <<ships, healths, displays, bullets, meteors, particles,
                             queue, hit_flash, log>>)
       /\ (pc = "done" => FALSE)]_vars

\* the loop has ended on a final frame with a ship at health 0
MatchEnded ==
    /\ pc = "done" /\ op = "final"
    /\ (red_health = 0 \/ yellow_health = 0)
    /\ winner # ""

\* ------------------------------------------------------------ C8
\* C8 as stated: when the match has ended, the ship named in the winner text
\* has health above 0 and the other ship has health 0.
WinnerIsAlive ==
    pc = "done" =>
        /\ winner \in {"Yellow Wins!", "Red Wins!"}
        /\ (winner = "Yellow Wins!" => yellow_health > 0 /\ red_health = 0)
        /\ (winner = "Red Wins!" => red_health > 0 /\ yellow_health = 0)

\* ------------------------------------------------------------ C9
\* C9: in every state, and so at the end of every update, every live particle
\* has life > 0 and size > 0.
NoDeadParticle ==
    \A i \in 1..Len(particles) : particles[i].life > 0 /\ particles[i].size > 0

\* an update has just pruned some particles and kept others
ParticlesPruned ==
    /\ op = "update"
    /\ Logged("pruned") # {}
    /\ particles # <<>>

\* ------------------------------------------------------------ C10
\* C10 as stated: in every state at most MAX_PARTICLES particles are live.
ParticleCapHolds == Len(particles) <= MAX_PARTICLES

\* ------------------------------------------------------------ C11
\* C11 as stated: when a meteor has collided with a ship and been moved, the
\* rect it is moved to overlaps neither ship's rect.
RelocationClearOfShips ==
    op = "update" =>
        \A i \in Logged("meteor_yellow") \cup Logged("meteor_red") :
            /\ ~colliderect(log[i].to, ship_rect(yellow_pos))
            /\ ~colliderect(log[i].to, ship_rect(red_pos))

\* ------------------------------------------------------------ C12
\* C12 as stated: in the meteor phase each meteor is tested against both ships
\* with the rect its advance left: it hits the yellow ship exactly when that
\* rect overlaps the yellow ship, and the red ship exactly when that rect
\* overlaps the red ship (so a meteor overlapping only yellow posts no red hit).
ShipTestsUseAdvancedRect ==
    op = "update" =>
        \A i \in Logged("meteor_step") :
            /\ log[i].hitY <=> colliderect(log[i].rect, ship_rect(yellow_pos))
            /\ log[i].hitR <=> colliderect(log[i].rect, ship_rect(red_pos))

\* ------------------------------------------------------------ C13
\* C13: in every update each live bullet is resolved by at most one removal
\* rule, taken in the order meteor, opposing ship, expiry: the bullets kept
\* and the removals logged add up to the bullets live before; a bullet removed
\* by the ship rule or by expiry overlapped no meteor, and one removed by
\* expiry no opposing ship; the ship hits posted by the update are one per
\* bullet removed by the ship rule (and one per meteor collision), so a bullet
\* a meteor absorbed posts none and no bullet posts two.
OneRulePerBullet ==
    [][UpdateStep =>
        LET byMeteor == {i \in 1..Len(log') : log'[i].ev = "bullet_meteor"}
            byRed == {i \in 1..Len(log') : log'[i].ev = "bullet_red"}
            byYellow == {i \in 1..Len(log') : log'[i].ev = "bullet_yellow"}
            byExpiry == {i \in 1..Len(log') : log'[i].ev = "bullet_dead"}
            mRed == {i \in 1..Len(log') : log'[i].ev = "meteor_red"}
            mYellow == {i \in 1..Len(log') : log'[i].ev = "meteor_yellow"}
        IN  /\ queue = <<>>
            /\ Len(bullets) = Len(bullets') + Cardinality(byMeteor)
                              + Cardinality(byRed) + Cardinality(byYellow)
                              + Cardinality(byExpiry)
            /\ Posted(queue', "RED_HIT") = Cardinality(byRed) + Cardinality(mRed)
            /\ Posted(queue', "YELLOW_HIT") = Cardinality(byYellow) + Cardinality(mYellow)
            /\ Len(queue') = Posted(queue', "RED_HIT") + Posted(queue', "YELLOW_HIT")
            /\ \A i \in byRed : BulletHitsRed(log'[i].bullet, red_pos')
            /\ \A i \in byYellow : BulletHitsYellow(log'[i].bullet, yellow_pos')
            /\ \A i \in byExpiry :
                  /\ BulletIsDead(log'[i].bullet)
                  /\ ~BulletHitsRed(log'[i].bullet, red_pos')
                  /\ ~BulletHitsYellow(log'[i].bullet, yellow_pos')
            /\ byMeteor = {} =>
                  \A i \in byRed \cup byYellow \cup byExpiry :
                      FirstMeteorHit(meteors, log'[i].bullet.rect) = 0
    ]_vars

\* an update in which a meteor absorbed a yellow bullet that also overlapped
\* the red ship, and no bullet damaged the red ship
MeteorShieldedShip ==
    /\ op = "update"
    /\ \E i \in Logged("bullet_meteor") : BulletHitsRed(log[i].bullet, red_pos)
    /\ Logged("bullet_red") = {}

\* ------------------------------------------------------------ C14
\* the hits on a ship posted and not yet applied, and the health the ship has
\* once they are
Pending(kind) == Posted(queue, kind) + Posted(batch, kind)
HealthOwed(health, kind) == Max(0, health - Pending(kind))

\* C14: k collisions that damage the same ship in one update, bullets and
\* meteors in any mix, take its health h to max(0, h - k): the update posts one
\* hit per collision it logged, on top of none pending; no later step of the
\* loop changes the health a ship has once its pending hits are applied; and
\* none is pending any more when the next update or the end test runs.
EveryHitCounts ==
    [][/\ pc = "events" => queue = <<>>
       /\ (pc = "events" /\ pc' \in {"draw", "done"}) => batch = <<>>
       /\ IF UpdateStep
          THEN LET nRed == Cardinality({i \in 1..Len(log') :
                                            log'[i].ev \in {"bullet_red", "meteor_red"}})
                   nYellow == Cardinality({i \in 1..Len(log') :
                                            log'[i].ev \in {"bullet_yellow", "meteor_yellow"}})
               IN  /\ Pending("RED_HIT") = 0 /\ Pending("YELLOW_HIT") = 0
                   /\ HealthOwed(red_health, "RED_HIT")' = Max(0, red_health - nRed)
                   /\ HealthOwed(yellow_health, "YELLOW_HIT")' = Max(0, yellow_health - nYellow)
          ELSE pc' # "exit" =>
                   /\ HealthOwed(red_health, "RED_HIT")' = HealthOwed(red_health, "RED_HIT")
                   /\ HealthOwed(yellow_health, "YELLOW_HIT")'
                          = HealthOwed(yellow_health, "YELLOW_HIT")
    ]_vars

\* the last update hit the red ship with a bullet and with a meteor, and both
\* hits have been applied, each taking one point
BulletAndMeteorHitApplied ==
    /\ pc = "events" /\ op = "red_hit" /\ red_health > 0
    /\ Pending("RED_HIT") = 0
    /\ Logged("bullet_red") # {} /\ Logged("meteor_red") # {}

FireAtCapIsNoOp ==
    [][((FireStep("K_LCTRL") /\ count_owner_bullets(bullets, "yellow") >= MAX_BULLETS)
        \/ (FireStep("K_RCTRL") /\ count_owner_bullets(bullets, "red") >= MAX_BULLETS))
       => /\ UNCHANGED <<bullets, particles, ships, healths>>
          /\ pc' = "events"
    ]_vars

\* the red ship's fire key has just been handled with four red bullets live
RedFireRefused ==
    /\ op = "no_fire_red"
    /\ count_owner_bullets(bullets, "red") = MAX_BULLETS

\* ------------------------------------------------------------ C17
\* C17: a bullet damages only the ship that did not fire it: every bullet an
\* update removes for hitting the yellow ship was fired by red, every bullet
\* removed for hitting the red ship was fired by yellow, and the update posts
\* no hit beyond those and the meteors', whatever bullets overlap their own
\* ship.
NoFriendlyFire ==
    [][UpdateStep =>
        LET onYellow == {i \in 1..Len(log') : log'[i].ev = "bullet_yellow"}
            onRed == {i \in 1..Len(log') : log'[i].ev = "bullet_red"}
            mYellow == {i \in 1..Len(log') : log'[i].ev = "meteor_yellow"}
            mRed == {i \in 1..Len(log') : log'[i].ev = "meteor_red"}
        IN  /\ \A i \in onYellow : log'[i].bullet.owner = "red"
            /\ \A i \in onRed : log'[i].bullet.owner = "yellow"
            /\ Posted(queue', "YELLOW_HIT") = Cardinality(onYellow \cup mYellow)
            /\ Posted(queue', "RED_HIT") = Cardinality(onRed \cup mRed)
    ]_vars

\* after an update a live yellow bullet still overlaps the yellow ship, which
\* fired it, and the update has posted no hit on the yellow ship
OwnBulletOverOwnShip ==
    /\ op = "update"
    /\ \E i \in 1..Len(bullets) :
          /\ bullets[i].owner = "yellow"
          /\ colliderect(ship_rect(yellow_pos), bullets[i].rect)
    /\ Posted(queue, "YELLOW_HIT") = 0

\* ------------------------------------------------------------ C18
\* velocities (1/1000 px/s, per axis) and frame durations (ms) to advance a
\* meteor with: at rest, the slowest a bullet hit gives, the spawn speed, twice
\* that (the most a bullet hit gives), and frames from 1 ms to 10 s
ProbeVelocities == {-140000, -70000, -56, 0, 56, 70000, 140000}
ProbeFrames == {1, 16, 100, 300, 10000}

\* the rect is within one meteor's size of the arena on every side
WithinReach(r) ==
    Right(r) >= 0 /\ Left(r) <= WIDTH /\ Bottom(r) >= 0 /\ Top(r) <= HEIGHT

\* C18: in every state there are METEOR_COUNT meteors, each with right >= 0,
\* left <= WIDTH, bottom >= 0 and top <= HEIGHT, and Meteor.update leaves each
\* of them so for every probed velocity and frame duration.
MeteorsStayWithinReach ==
    /\ Len(meteors) = METEOR_COUNT
    /\ \A i \in 1..Len(meteors) :
          /\ WithinReach(meteors[i].rect)
          /\ \A vx \in ProbeVelocities, vy \in ProbeVelocities, d \in ProbeFrames :
                WithinReach(MeteorUpdate([meteors[i] EXCEPT !.vx = vx, !.vy = vy], d).rect)

\* an update has just wrapped a meteor that left on the left to the right edge
MeteorWrappedLeft ==
    /\ op = "update"
    /\ \E i \in Logged("wrap") :
          /\ Right(log[i].from) < 0
          /\ Left(log[i].to) = WIDTH
          /\ meteors[log[i].meteor].rect = log[i].to

\* ------------------------------------------------------------ C19
\* magnitudes (px) and durations (microseconds) to trigger the shake with
ProbeMagnitudes == {0, 4, 10, 25}
ProbeDurations == {1000, 350000, 900000}

\* C19: trigger leaves timer = duration and magnitude = magnitude whatever
\* the shake was before: the trigger of every hit handled leaves timer 0.35 s
\* and magnitude 10, and in every state a trigger with any probed magnitude
\* and duration would leave exactly these.
TriggerOverrides ==
    [][/\ (HitStep("RED_HIT") \/ HitStep("YELLOW_HIT")) =>
             /\ shake_prev' = shake
             /\ shake'.timer = 350000
             /\ shake'.magnitude = 10
       /\ \A m \in ProbeMagnitudes, d \in ProbeDurations :
             LET sh == ShakeTrigger(shake, m, d, Vec(1, 0))
             IN  sh.timer = d /\ sh.magnitude = m
    ]_vars

\* a hit on the red ship has just re-triggered a shake that was still running
\* with part of its time gone
RetriggeredWhileActive ==
    /\ op = "red_hit"
    /\ shake_prev.magnitude = 10
    /\ shake_prev.timer > 0 /\ shake_prev.timer < 350000
    /\ shake.timer = 350000 /\ shake.magnitude = 10

\* ------------------------------------------------------------ C20
\* C20 as stated: when the call of ScreenShake.update made for a frame leaves
\* the timer <= 0, the offset that call returned is (0,0).
ShakeIdleIsStill ==
    (op \in {"draw", "final"} /\ shake.timer <= 0) => shake_offset = <<0, 0>>

\* ------------------------------------------------------------ C21
\* C21 as stated: over any run of frames in which a meteor is neither wrapped
\* nor moved by a collision, its displacement on each axis is within one pixel
\* of velocity times the time advanced (here in 1/1000000 px).
AdvanceIntegrates ==
    \A i \in 1..Len(meteors) :
        course[i].ms < CourseMs =>
        /\ Abs((meteors[i].rect.x - course[i].from.x) * 1000000
               - meteors[i].vx * course[i].ms) <= 1000000
        /\ Abs((meteors[i].rect.y - course[i].from.y) * 1000000
               - meteors[i].vy * course[i].ms) <= 1000000

\* ------------------------------------------------------------ C22
\* the loop has stopped: the match is over or the window was closed
Stopped == pc \in {"done", "exit"}

\* C22: while the loop keeps passing with frames of positive duration, every
\* bullet is removed in the end, within 2.0 s of frame time: a live bullet has
\* 0 < life <= 2.0 s; every update takes a frame of positive duration and
\* every bullet it keeps is one it found, with the same owner and the frame's
\* duration less life; and a ship that has MAX_BULLETS bullets live comes to
\* have fewer, so that it may fire again, unless the loop stops first.
BulletsEventuallyRemoved ==
    /\ [](\A i \in 1..Len(bullets) :
             bullets[i].life > 0 /\ bullets[i].life <= BULLET_LIFE)
    /\ [][UpdateStep =>
             /\ dt > 0
             /\ Len(bullets') <= Len(bullets)
             /\ \A i \in 1..Len(bullets') : \E k \in 1..Len(bullets) :
                   /\ bullets'[i].owner = bullets[k].owner
                   /\ bullets'[i].life = bullets[k].life - dt
       ]_vars
    /\ \A owner \in {"yellow", "red"} :
          (count_owner_bullets(bullets, owner) = MAX_BULLETS)
              ~> (count_owner_bullets(bullets, owner) < MAX_BULLETS \/ Stopped)

\* the yellow ship, which had MAX_BULLETS bullets live until the last update
\* saw one of them leave the arena, has fired again and the loop goes on
FiredAgainAfterCap ==
    /\ op = "fire" /\ ~Stopped
    /\ count_owner_bullets(bullets, "yellow") = MAX_BULLETS
    /\ Cardinality({i \in Logged("bullet_dead") : log[i].bullet.owner = "yellow"}) = 1
    /\ \E i \in Logged("bullet_dead") : Left(log[i].bullet.rect) > WIDTH

====
